---------------------------- MODULE Spec2Model ----------------------------
(***************************************************************************)
(* Model of the daangn rental spider                                       *)
(* (src/daagn/daagn/spiders/daangn_rental_spider.py).                      *)
(*                                                                         *)
(* Text is a sequence of characters.  A character is written as a string:  *)
(* ASCII characters stand for themselves, a Hangul syllable is written by  *)
(* its romanisation ("dae" "yeo" is the word for rental, "man" the         *)
(* ten-thousand unit, "il" the day counter ...).                           *)
(*                                                                         *)
(* A Python value is a record [k, s]: k = "str" is the string s,           *)
(* k = "none" is None and every other falsy value (0, [], {}), and         *)
(* k = "other" is a truthy value that is not a string (a number, a list,   *)
(* a dict) whose str() is s.                                               *)
(***************************************************************************)
EXTENDS Integers, Sequences, FiniteSets

VARIABLES
    start_urls,    \* listing pages still to be requested by the engine at start-up
    max_pages,     \* self.max_pages
    page,          \* self.page
    scheduler,     \* requests issued and waiting in the engine's scheduler (a bag)
    downloading,   \* requests handed to the downloader (a bag)
    responses,     \* downloaded responses whose callback has not run yet (a bag)
    listLog,       \* the listing-page requests issued so far, in order
    parsedLists,   \* the listing pages whose parse callback has run
    response,      \* the detail response handed to parse_detail
    detailOut,     \* what the last parse_detail call produced
    arg,           \* arguments of a helper call under test
    ret            \* its return value

vars == <<start_urls, max_pages, page, scheduler, downloading, responses,
          listLog, parsedLists, response, detailOut, arg, ret>>

-----------------------------------------------------------------------------
(* Characters and strings *)

None == [k |-> "none", s |-> <<>>]

Str(s) == [k |-> "str", s |-> s]

Other(s) == [k |-> "other", s |-> s]

\* Python truthiness
Truthy(v) == v.k = "other" \/ (v.k = "str" /\ v.s # <<>>)

Digits == {"0", "1", "2", "3", "4", "5", "6", "7", "8", "9"}

\* characters matched by the regex class \s
Whitespace == {" ", "tab", "nl"}

DigitVal(c) ==
    CASE c = "0" -> 0 [] c = "1" -> 1 [] c = "2" -> 2 [] c = "3" -> 3
      [] c = "4" -> 4 [] c = "5" -> 5 [] c = "6" -> 6 [] c = "7" -> 7
      [] c = "8" -> 8 [] c = "9" -> 9

DigitChar(n) ==
    CASE n = 0 -> "0" [] n = 1 -> "1" [] n = 2 -> "2" [] n = 3 -> "3"
      [] n = 4 -> "4" [] n = 5 -> "5" [] n = 6 -> "6" [] n = 7 -> "7"
      [] n = 8 -> "8" [] n = 9 -> "9"

\* int("0025") = 25
RECURSIVE ParseInt(_)
ParseInt(s) ==
    IF s = <<>> THEN 0
    ELSE 10 * ParseInt(SubSeq(s, 1, Len(s) - 1)) + DigitVal(s[Len(s)])

\* str(25) = "25"
RECURSIVE IntToStr(_)
IntToStr(n) ==
    IF n < 10 THEN <<DigitChar(n)>>
    ELSE Append(IntToStr(n \div 10), DigitChar(n % 10))

\* s.replace(c, "") for every c in chars
Remove(s, chars) == SelectSeq(s, LAMBDA c : c \notin chars)

\* s.strip()
RECURSIVE Strip(_)
Strip(s) ==
    IF s = <<>> THEN s
    ELSE IF Head(s) \in Whitespace THEN Strip(Tail(s))
    ELSE IF s[Len(s)] \in Whitespace THEN Strip(SubSeq(s, 1, Len(s) - 1))
    ELSE s

\* re.sub(r"\s+", " ", s): every run of whitespace becomes one space
RECURSIVE CollapseWs(_)
CollapseWs(s) ==
    IF s = <<>> THEN s
    ELSE IF Head(s) \in Whitespace
         THEN IF Len(s) > 1 /\ s[2] \in Whitespace
              THEN CollapseWs(Tail(s))
              ELSE <<" ">> \o CollapseWs(Tail(s))
         ELSE <<Head(s)>> \o CollapseWs(Tail(s))

\* the pattern pat occurs in s starting at position i
MatchesAt(s, i, pat) ==
    /\ i >= 1
    /\ i + Len(pat) - 1 <= Len(s)
    /\ SubSeq(s, i, i + Len(pat) - 1) = pat

\* re.search of a literal
Contains(s, pat) == \E i \in 1..(Len(s) + 1) : MatchesAt(s, i, pat)

\* regex \s* from position i: the first position not holding whitespace
RECURSIVE SkipWs(_, _)
SkipWs(s, i) ==
    IF i <= Len(s) /\ s[i] \in Whitespace THEN SkipWs(s, i + 1) ELSE i

\* regex \d+ (greedy) from position i: the position after the digit run
RECURSIVE SkipDigits(_, _)
SkipDigits(s, i) ==
    IF i <= Len(s) /\ s[i] \in Digits THEN SkipDigits(s, i + 1) ELSE i

-----------------------------------------------------------------------------
(* _normalize_amount *)

\* float(x) raises ValueError unless, once stripped, x is a run of digits
FloatParses(x) == Strip(x) # <<>> /\ \A i \in 1..Len(Strip(x)) : Strip(x)[i] \in Digits

UnitMultiplierManAsThousand(unit) ==
    IF ~Truthy(unit) THEN 1
    ELSE IF Strip(unit.s) = <<"man">> THEN 1000
    ELSE IF Strip(unit.s) = <<"cheon">> THEN 1000
    ELSE 1

UnitMultiplier(unit) ==
    IF ~Truthy(unit) THEN 1
    ELSE IF Strip(unit.s) = <<"man">> THEN 10000
    ELSE IF Strip(unit.s) = <<"cheon">> THEN 1000
    ELSE 1

\* number.replace(",", "").replace(".", "")
StripSeparators(number) == Remove(number, {",", "."})

NormalizeAmount(number, unit) ==
    IF ~Truthy(number) THEN None
    ELSE IF ~FloatParses(StripSeparators(number.s)) THEN None
    ELSE Str(IntToStr(ParseInt(Strip(StripSeparators(number.s))) * UnitMultiplier(unit)))

-----------------------------------------------------------------------------
(* Regex helpers *)

\* the character at position i, "" past either end
CharAt(s, i) == IF i \in 1..Len(s) THEN s[i] ELSE ""

\* re.search is leftmost: the smallest position of a non-empty set of positions
FirstPos(S) == CHOOSE i \in S : \A j \in S : i <= j

\* the characters ":" and the full-width colon
Colons == {":", "fwcolon"}

UnitChars == {"man", "cheon", "won"}

\* \s*[:]?\s* from position p: where the number has to start
AmountStart(s, p) ==
    LET k == SkipWs(s, p)
    IN  SkipWs(s, IF CharAt(s, k) \in Colons THEN k + 1 ELSE k)

\* \s*[:]?\s*([0-9]+(?:[.,][0-9]+)?)(man|cheon|won)? matches from position p
AmountMatches(s, p) == CharAt(s, AmountStart(s, p)) \in Digits

\* groups of that match: the number and the unit (None when the unit is absent)
AmountGroups(s, p) ==
    LET b == AmountStart(s, p)
        e == SkipDigits(s, b)
        f == IF CharAt(s, e) \in {".", ","} /\ CharAt(s, e + 1) \in Digits
             THEN SkipDigits(s, e + 1) ELSE e
    IN  [number |-> Str(SubSeq(s, b, f - 1)),
         unit   |-> IF CharAt(s, f) \in UnitChars THEN Str(<<s[f]>>) ELSE None]

-----------------------------------------------------------------------------
(* _parse_rental_duration *)

OneDay == <<"1", "il">>

\* \d+/\d+
DateLike(t) ==
    \E i \in 1..Len(t) :
        t[i] \in Digits /\ CharAt(t, i + 1) = "/" /\ CharAt(t, i + 2) \in Digits

\* (\d+)\s*bak\s*(\d+)\s*il at position i
NightsDaysAt(t, i) ==
    LET k == SkipWs(t, SkipDigits(t, i))
        l == SkipWs(t, k + 1)
    IN  /\ CharAt(t, i) \in Digits
        /\ CharAt(t, k) = "bak"
        /\ CharAt(t, l) \in Digits
        /\ CharAt(t, SkipWs(t, SkipDigits(t, l))) = "il"

NightsDaysGroup2(t, i) ==
    LET l == SkipWs(t, SkipWs(t, SkipDigits(t, i)) + 1)
    IN  SubSeq(t, l, SkipDigits(t, l) - 1)

\* (\d+)(?:\s*[-~]\s*\d+)?\s*il at position i
DaysAt(t, i) ==
    LET j == SkipDigits(t, i)
        k == SkipWs(t, j)
        l == SkipWs(t, k + 1)
    IN  /\ CharAt(t, i) \in Digits
        /\ \/ /\ CharAt(t, k) \in {"-", "~"}
              /\ CharAt(t, l) \in Digits
              /\ CharAt(t, SkipWs(t, SkipDigits(t, l))) = "il"
           \/ CharAt(t, k) = "il"

\* (\d+)\s*ju(?:il)? at position i
WeeksAt(t, i) ==
    /\ CharAt(t, i) \in Digits
    /\ CharAt(t, SkipWs(t, SkipDigits(t, i))) = "ju"

\* (\d+)\s*sigan at position i
HoursAt(t, i) ==
    LET k == SkipWs(t, SkipDigits(t, i))
    IN  /\ CharAt(t, i) \in Digits
        /\ CharAt(t, k) = "si"
        /\ CharAt(t, k + 1) = "gan"

\* group 1 of the three patterns above: the digit run starting at i
DigitRun(t, i) == SubSeq(t, i, SkipDigits(t, i) - 1)

HoursToDurationAlwaysHours(hours) == IntToStr(hours) \o <<"si", "gan">>

\* f"{hours}sigan" if hours < 24 else f"{max(1, hours // 24)}il"
HoursToDuration(hours) ==
    IF hours < 24 THEN IntToStr(hours) \o <<"si", "gan">>
    ELSE IntToStr(IF hours \div 24 > 1 THEN hours \div 24 ELSE 1) \o <<"il">>

\* (handal|1gaewol|30il)
OneMonth(t) ==
    \/ Contains(t, <<"han", "dal">>)
    \/ Contains(t, <<"1", "gae", "wol">>)
    \/ Contains(t, <<"3", "0", "il">>)

ParseRentalDuration(text) ==
    LET t  == Remove(text, {" "})
        P  == 1..Len(t)
        nd == {i \in P : NightsDaysAt(t, i)}
        d  == {i \in P : DaysAt(t, i)}
        w  == {i \in P : WeeksAt(t, i)}
        h  == {i \in P : HoursAt(t, i)}
    IN  IF text = <<>> THEN OneDay
        ELSE IF DateLike(t) THEN OneDay
        ELSE IF nd # {} THEN NightsDaysGroup2(t, FirstPos(nd)) \o <<"il">>
        ELSE IF d # {} THEN DigitRun(t, FirstPos(d)) \o <<"il">>
        ELSE IF Contains(t, <<"ha", "ru">>) \/ Contains(t, <<"dang", "il">>) THEN OneDay
        ELSE IF w # {} THEN IntToStr(ParseInt(DigitRun(t, FirstPos(w))) * 7) \o <<"il">>
        ELSE IF h # {} THEN HoursToDuration(ParseInt(DigitRun(t, FirstPos(h))))
        ELSE IF OneMonth(t) THEN <<"3", "0", "il">>
        ELSE OneDay

-----------------------------------------------------------------------------
(* _parse_deposit, _parse_purchase_age, _parse_damage_policy *)

\* the second syllable of the deposit keyword and its common misspellings
DepositMiddle == {"jeung", "jeu", "jung", "jop", "jum", "jom"}

\* (bo[...]geum)\s*[:]?\s*(number)(unit)? at position i
DepositAt(s, i) ==
    /\ CharAt(s, i) = "bo"
    /\ CharAt(s, i + 1) \in DepositMiddle
    /\ CharAt(s, i + 2) = "geum"
    /\ AmountMatches(s, i + 3)

ParseDepositNoDefault(text) ==
    LET m == {i \in 1..Len(text) : DepositAt(text, i)}
    IN  IF m # {}
        THEN LET g == AmountGroups(text, FirstPos(m) + 3)
             IN  NormalizeAmount(g.number, g.unit)
        ELSE None

ParseDeposit(text) ==
    LET m == {i \in 1..Len(text) : DepositAt(text, i)}
    IN  IF m # {}
        THEN LET g == AmountGroups(text, FirstPos(m) + 3)
             IN  NormalizeAmount(g.number, g.unit)
        ELSE Str(<<"0">>)

\* (il|ju|gaewol|dal|nyeon) at position j: the unit matched, <<>> when none
AgeUnitAt(t, j) ==
    IF CharAt(t, j) \in {"il", "ju", "dal", "nyeon"} THEN <<t[j]>>
    ELSE IF CharAt(t, j) = "gae" /\ CharAt(t, j + 1) = "wol" THEN <<"gae", "wol">>
    ELSE <<>>

\* (\d+)(unit)jeon at position i
AgoAt(t, i) ==
    LET j == SkipDigits(t, i)
        u == AgeUnitAt(t, j)
    IN  CharAt(t, i) \in Digits /\ u # <<>> /\ CharAt(t, j + Len(u)) = "jeon"

\* (gumae|sayong)(hanji)? at position i: where (\d+) has to start, 0 when no keyword
SinceStart(t, i) ==
    IF MatchesAt(t, i, <<"gu", "mae">>) \/ MatchesAt(t, i, <<"sa", "yong">>)
    THEN IF MatchesAt(t, i + 2, <<"han", "ji">>) /\ CharAt(t, i + 4) \in Digits
         THEN i + 4 ELSE i + 2
    ELSE 0

\* (gumae|sayong)(hanji)?(\d+)(unit) at position i
SinceAt(t, i) ==
    LET b == SinceStart(t, i)
    IN  b # 0 /\ CharAt(t, b) \in Digits /\ AgeUnitAt(t, SkipDigits(t, b)) # <<>>

\* (20\d{2})nyeon(hyeong|sik)? at position i
ModelYearAt(t, i) ==
    /\ CharAt(t, i) = "2" /\ CharAt(t, i + 1) = "0"
    /\ CharAt(t, i + 2) \in Digits /\ CharAt(t, i + 3) \in Digits
    /\ CharAt(t, i + 4) = "nyeon"

ParsePurchaseAge(text) ==
    LET t   == Remove(text, {" "})
        P   == 1..Len(t)
        ago == {i \in P : AgoAt(t, i)}
        sin == {i \in P : SinceAt(t, i)}
        my  == {i \in P : ModelYearAt(t, i)}
    IN  IF Contains(t, <<"myeo", "chil", "jeon">>) THEN <<"myeo", "chil", " ", "jeon">>
        ELSE IF ago # {}
             THEN LET i == FirstPos(ago)
                  IN  DigitRun(t, i) \o AgeUnitAt(t, SkipDigits(t, i)) \o <<" ", "jeon">>
        ELSE IF sin # {}
             THEN LET b == SinceStart(t, FirstPos(sin))
                  IN  DigitRun(t, b) \o AgeUnitAt(t, SkipDigits(t, b))
        ELSE IF Contains(t, <<"jak", "nyeon">>) THEN <<"jak", "nyeon">>
        ELSE IF Contains(t, <<"ol", "hae">>) \/ Contains(t, <<"geum", "nyeon">>)
             THEN <<"ol", "hae">>
        ELSE IF my # {}
             THEN LET i == FirstPos(my)
                  IN  SubSeq(t, i, i + 4) \o
                      (IF CharAt(t, i + 5) \in {"hyeong", "sik"} THEN <<t[i + 5]>> ELSE <<>>)
        ELSE IF \/ Contains(t, <<"eol", "ma", "an">>)
                \/ Contains(t, <<"geo", "ui", "an">>)
                \/ Contains(t, <<"sae", "geot", "gat">>)
             THEN <<"choe", "geun">>
        ELSE <<>>

\* (pason|bunsil|suribi|a/?s|silbi|cheonggu), ignoring case
ParseDamagePolicy(text) ==
    \/ Contains(text, <<"pa", "son">>)
    \/ Contains(text, <<"bun", "sil">>)
    \/ Contains(text, <<"su", "ri", "bi">>)
    \/ \E i \in 1..Len(text) :
          /\ text[i] \in {"a", "A"}
          /\ \/ CharAt(text, i + 1) \in {"s", "S"}
             \/ CharAt(text, i + 1) = "/" /\ CharAt(text, i + 2) \in {"s", "S"}
    \/ Contains(text, <<"sil", "bi">>)
    \/ Contains(text, <<"cheong", "gu">>)

-----------------------------------------------------------------------------
(* parse_detail *)

\* clean(): re.sub(r"\s+", " ", s or "").strip()
Clean(s) == Strip(CollapseWs(s))

\* pick_first(*vals): [err, s].  A falsy value is passed over; clean() of a
\* truthy value that is not a string raises TypeError.
RECURSIVE PickFirstUncleaned(_)
PickFirstUncleaned(vals) ==
    IF vals = <<>> THEN [err |-> FALSE, s |-> <<>>]
    ELSE IF ~Truthy(Head(vals)) THEN PickFirstUncleaned(Tail(vals))
    ELSE IF Head(vals).k # "str" THEN [err |-> TRUE, s |-> <<>>]
    ELSE IF Clean(Head(vals).s) # <<>> THEN [err |-> FALSE, s |-> Head(vals).s]
    ELSE PickFirstUncleaned(Tail(vals))

RECURSIVE PickFirst(_)
PickFirst(vals) ==
    IF vals = <<>> THEN [err |-> FALSE, s |-> <<>>]
    ELSE IF ~Truthy(Head(vals)) THEN PickFirst(Tail(vals))
    ELSE IF Head(vals).k # "str" THEN [err |-> TRUE, s |-> <<>>]
    ELSE IF Clean(Head(vals).s) # <<>> THEN [err |-> FALSE, s |-> Clean(Head(vals).s)]
    ELSE PickFirst(Tail(vals))

\* ld_name = ld_price = ld_category = ""
LdInit == [err |-> FALSE, name |-> Str(<<>>), price |-> Str(<<>>), category |-> Str(<<>>)]

\* d.get(key) or (d.get("itemOffered") or {}).get(key), for key = name, category:
\* [err, v]; .get on an itemOffered that is no dict raises AttributeError
LdField(own, io, nested) ==
    IF Truthy(own) THEN [err |-> FALSE, v |-> own]
    ELSE IF io.k = "other" THEN [err |-> TRUE, v |-> None]
    ELSE IF io.k = "dict" THEN [err |-> FALSE, v |-> nested]
    ELSE [err |-> FALSE, v |-> None]

\* str(offers.get("price") or (offers.get("priceSpecification") or {}).get("price") or "")
\* after offers = d.get("offers") or {} and offers = offers[0] for a list: [err, v]
LdPrice(offers) ==
    IF offers.k = "none" THEN [err |-> FALSE, v |-> Str(<<>>)]
    ELSE IF offers.k = "other" \/ ~offers.first.dict THEN [err |-> TRUE, v |-> None]
    ELSE IF Truthy(offers.first.price)
         THEN [err |-> FALSE, v |-> Str(offers.first.price.s)]
    ELSE IF offers.first.priceSpecification.k = "other" THEN [err |-> TRUE, v |-> None]
    ELSE IF /\ offers.first.priceSpecification.k = "dict"
            /\ Truthy(offers.first.priceSpecification.price)
         THEN [err |-> FALSE, v |-> Str(offers.first.priceSpecification.price.s)]
    ELSE [err |-> FALSE, v |-> Str(<<>>)]

\* the body of "for d in candidates" for one d
LdItem(d, st) ==
    IF st.err \/ ~(d.dict /\ d.type \in {"Product", "Offer"}) THEN st
    ELSE LET n == IF Truthy(st.name) THEN [err |-> FALSE, v |-> st.name]
                  ELSE LdField(d.name, d.itemOffered, d.itemOffered.name)
             p == IF Truthy(st.price) THEN [err |-> FALSE, v |-> st.price]
                  ELSE LdPrice(d.offers)
             c == IF Truthy(st.category) THEN [err |-> FALSE, v |-> st.category]
                  ELSE LdField(d.category, d.itemOffered, d.itemOffered.category)
         IN  IF n.err \/ p.err \/ c.err
             THEN [st EXCEPT !.err = TRUE]
             ELSE [err |-> FALSE, name |-> n.v, price |-> p.v, category |-> c.v]

RECURSIVE LdItems(_, _)
LdItems(items, st) ==
    IF items = <<>> THEN st ELSE LdItems(Tail(items), LdItem(Head(items), st))

\* "for node in ...getall()": a node json.loads cannot parse is passed over
RECURSIVE LdNodes(_, _)
LdNodes(nodes, st) ==
    IF nodes = <<>> THEN st
    ELSE LdNodes(Tail(nodes),
                 IF Head(nodes).parses THEN LdItems(Head(nodes).items, st) ELSE st)

\* cat_texts = [clean(x) for x in cat_texts if clean(x)]; cat_texts[-1] or ""
CatGuess(cat_texts) ==
    LET kept == SelectSeq(cat_texts, LAMBDA x : Clean(x) # <<>>)
    IN  IF kept = <<>> THEN <<>> ELSE Clean(kept[Len(kept)])

\* " ".join(parts)
RECURSIVE JoinSpace(_)
JoinSpace(parts) ==
    IF parts = <<>> THEN <<>>
    ELSE IF Len(parts) = 1 THEN Head(parts)
    ELSE Head(parts) \o <<" ">> \o JoinSpace(Tail(parts))

\* desc = clean(" ".join([p for p in desc_parts if clean(p)]))
Description(desc_parts) ==
    Clean(JoinSpace(SelectSeq(desc_parts, LAMBDA x : Clean(x) # <<>>)))

\* self.title_re with the default title_keywords: daeyeo|rental
TitleMatches(title_norm) ==
    Contains(title_norm, <<"dae", "yeo">>) \/ Contains(title_norm, <<"ren", "tal">>)

ExcludedCategories ==
    { <<"ti", "ket", "/", "gyo", "hwan", "gwon">>,
      <<"sap", "ni", "da">>,
      <<"mu", "ryo", "na", "num">> }

CategoryExcludedNever(category) == FALSE

CategoryExcluded(category) == category \in ExcludedCategories

\* the reconciled prices that send parse_detail to the description
NoPriceTexts == { <<>>, <<"0">>, <<"0", "won">>, <<"ga", "gyeok", " ", "eop", "eum">> }

NeedsPriceFallbackEmptyOnly(rental_price) == rental_price = <<>>

NeedsPriceFallback(rental_price) == rental_price \in NoPriceTexts

\* (daeyeobi|rentalbi|daeyeo)\s*[:]?\s*(number)(unit)? at position i:
\* the position after the keyword, 0 when there is no match at i
FeeAt(s, i) ==
    IF /\ MatchesAt(s, i, <<"dae", "yeo", "bi">>) \/ MatchesAt(s, i, <<"ren", "tal", "bi">>)
       /\ AmountMatches(s, i + 3)
    THEN i + 3
    ELSE IF MatchesAt(s, i, <<"dae", "yeo">>) /\ AmountMatches(s, i + 2) THEN i + 2
    ELSE 0

FallbackPrice(desc) ==
    LET m == {i \in 1..Len(desc) : FeeAt(desc, i) # 0}
    IN  IF m # {}
        THEN LET g == AmountGroups(desc, FeeAt(desc, FirstPos(m)))
             IN  NormalizeAmount(g.number, g.unit)
        ELSE Str(<<"0">>)

\* x or None
OrNone(v) == IF Truthy(v) THEN v ELSE None

NoFields == [product_name |-> <<>>, rental_price |-> <<>>, post_link |-> <<>>,
             category |-> <<>>]

NoItem == [product_name |-> <<>>, rental_price |-> None, post_link |-> <<>>,
           category |-> <<>>, rental_duration |-> <<>>, deposit |-> None,
           purchase_age |-> None, damage_policy |-> FALSE]

\* nothing produced yet
NoDetail == [outcome |-> "none", picked |-> NoFields, items |-> <<>>, log |-> <<>>]

\* The whole callback.  outcome: "record" (one item yielded), "skip" (a [SKIP]
\* line logged, nothing yielded) or "error" (an exception left the callback:
\* nothing yielded, nothing logged by the spider).
ParseDetail(r) ==
    LET ld           == LdNodes(r.ld_nodes, LdInit)
        cat_guess    == CatGuess(r.cat_texts)
        desc         == Description(r.desc_parts)
        product_name == PickFirst(<<r.og_title, ld.name, r.h1_title>>)
        rental_price == PickFirst(<<r.meta_price, ld.price, r.price_text>>)
        post_link    == PickFirst(<<r.canonical, r.og_url, Str(r.url)>>)
        category     == PickFirst(<<ld.category, r.article_section, Str(cat_guess)>>)
        picked       == [product_name |-> product_name.s, rental_price |-> rental_price.s,
                         post_link |-> post_link.s, category |-> category.s]
        title_norm   == Remove(product_name.s, {" "})
        duration     == ParseRentalDuration(product_name.s \o <<" ">> \o desc)
        price        == IF NeedsPriceFallback(rental_price.s)
                        THEN FallbackPrice(desc) ELSE Str(rental_price.s)
    IN  IF ld.err \/ product_name.err \/ rental_price.err \/ post_link.err \/ category.err
        THEN [outcome |-> "error", picked |-> NoFields, items |-> <<>>, log |-> <<>>]
        ELSE IF ~TitleMatches(title_norm)
        THEN [outcome |-> "skip", picked |-> picked, items |-> <<>>,
              log |-> <<"title does not match keywords">>]
        ELSE IF CategoryExcluded(category.s)
        THEN [outcome |-> "skip", picked |-> picked, items |-> <<>>,
              log |-> <<"excluded category">>]
        ELSE [outcome |-> "record", picked |-> picked, log |-> <<>>,
              items |-> << [product_name    |-> product_name.s,
                            rental_price    |-> price,
                            post_link       |-> post_link.s,
                            category        |-> category.s,
                            rental_duration |-> IF duration # <<>> THEN duration ELSE OneDay,
                            deposit         |-> OrNone(ParseDeposit(desc)),
                            purchase_age    |-> OrNone(Str(ParsePurchaseAge(desc))),
                            damage_policy   |-> ParseDamagePolicy(desc)] >>]

-----------------------------------------------------------------------------
(* Bounds and inputs *)

\* largest max_pages tried
MaxPagesBound == 3

\* most detail links one listing page yields
MaxLinks == 2

\* most JSON-LD script nodes on a detail page
MaxBlocks == 2

\* longest number token handed to _normalize_amount
MaxNumLen == 3

\* most tokens in a text handed to _parse_rental_duration
MaxParts == 4

\* all sequences over S of length at most n
SeqsUpTo(S, n) == UNION {[1..m -> S] : m \in 0..n}

RECURSIVE Flatten(_)
Flatten(parts) == IF parts = <<>> THEN <<>> ELSE Head(parts) \o Flatten(Tail(parts))

AmountAlphabet == {"0", "1", "5", ",", ".", "won", " "}

\* number tokens beyond the alphabet's short ones
AmountExamples ==
    {None, Str(<<"1", "0", "0", "0", "0">>), Str(<<"1", "0", "0", "0", "0", "won">>),
     Str(<<"2">>)}

AmountUnits ==
    {None, Str(<<>>), Str(<<"man">>), Str(<<"cheon">>), Str(<<"won">>),
     Str(<<" ", "man">>), Str(<<"eok">>)}

DurationTokens ==
    { <<"2">>, <<"2", "5">>, <<"/">>, <<"~">>, <<" ">>, <<"bak">>, <<"il">>, <<"ju">>,
      <<"si", "gan">>, <<"han", "dal">>, <<"dang">>, <<"5", "il">>, <<"2", "bak">> }

\* titles, prices, categories, links and descriptions found on detail pages
TitleRental == <<" ", "kaem", "ping", "nl", " ", "dae", " ", "yeo", " ">>
TitleDesk == <<"chaek", "sang">>
HeadingRental == <<"ren", "tal", " ", "ten", "teu">>
Blank == <<" ">>
PriceZero == <<"0">>
PriceVisible == <<" ", "1", "0", ",", "0", "0", "0", "won">>
PriceNone == <<"ga", "gyeok", " ", " ", "eop", "eum">>
PriceZeroWon == <<"0", "won">>
CatFree == <<"mu", "ryo", "na", "num">>
CatWanted == <<"sap", "ni", "da">>
CatCamping == <<"kaem", "ping">>
LinkCanonical == <<"c">>
LinkOg == <<"o">>
LinkPage == <<"u">>

DescFee == << <<"dae", "yeo", "bi", " ", "1", "5", "0", "0", "0", "won">> >>

DescDeposit ==
    << <<"bo", "jeung", "geum", ":", " ", "1", ".", "5", "man">>, <<" ">>,
       <<"2", "bak", "3", "il">> >>

DescMixed ==
    << <<"dae", "yeo", " ", "mun", "ui">>, <<"ren", "tal", "bi", "2", "cheon">>,
       <<"bo", "jung", "geum", " ", "eop", "eum">>,
       <<"gu", "mae", "han", "ji", "3", "gae", "wol">>, <<"pa", "son">> >>

DescPlain == << <<"kkae", "kkeut", "hae", "yo">> >>

\* JSON-LD shapes
NoItemOffered == [k |-> "none", name |-> None, category |-> None]
NoPriceSpec == [k |-> "none", price |-> None]
NoOffer == [dict |-> TRUE, price |-> None, priceSpecification |-> NoPriceSpec]
NoOffers == [k |-> "none", first |-> NoOffer]

\* a JSON value that is not an object
NotADict == [dict |-> FALSE, type |-> "", name |-> None, itemOffered |-> NoItemOffered,
             offers |-> NoOffers, category |-> None]

ItemBreadcrumb == [NotADict EXCEPT !.dict = TRUE, !.type = "BreadcrumbList"]

ItemProduct ==
    [dict |-> TRUE, type |-> "Product", name |-> Str(<<"ui", "ja", " ", "dae", "yeo">>),
     itemOffered |-> NoItemOffered,
     offers |-> [k |-> "dict",
                 first |-> [NoOffer EXCEPT !.price = Other(<<"7", "0", "0", "0">>)]],
     category |-> Str(CatCamping)]

ItemOfferList ==
    [dict |-> TRUE, type |-> "Offer", name |-> None,
     itemOffered |-> [k |-> "dict", name |-> Str(HeadingRental), category |-> Str(CatFree)],
     offers |-> [k |-> "list",
                 first |-> [NoOffer EXCEPT !.priceSpecification =
                                [k |-> "dict", price |-> Str(<<"3", "0", "0", "0">>)]]],
     category |-> None]

\* "priceSpecification": [ ... ]
ItemPriceSpecList ==
    [ItemProduct EXCEPT !.offers = [k |-> "dict",
                                    first |-> [NoOffer EXCEPT !.priceSpecification =
                                                   [k |-> "other", price |-> None]]]]

\* "offers": "15000"
ItemOffersText == [ItemProduct EXCEPT !.offers = [k |-> "other", first |-> NoOffer]]

\* "name": 123
ItemNumericName == [ItemProduct EXCEPT !.name = Other(<<"1", "2", "3">>)]

BlockMalformed == [parses |-> FALSE, items |-> <<>>]

LdShapes ==
    { BlockMalformed,
      [parses |-> TRUE, items |-> <<ItemBreadcrumb>>],
      [parses |-> TRUE, items |-> <<NotADict, ItemProduct>>],
      [parses |-> TRUE, items |-> <<ItemOfferList>>],
      [parses |-> TRUE, items |-> <<ItemPriceSpecList>>],
      [parses |-> TRUE, items |-> <<ItemOffersText>>],
      [parses |-> TRUE, items |-> <<ItemNumericName>>] }

\* detail pages that vary the visible and metadata fields
PagesFields ==
    [og_title        : {None, Str(TitleRental), Str(TitleDesk)},
     og_url          : {None, Str(LinkOg)},
     canonical       : {None, Str(Blank), Str(LinkCanonical)},
     meta_price      : {None, Str(PriceZero)},
     article_section : {None, Str(CatWanted)},
     ld_nodes        : {<<>>, <<[parses |-> TRUE, items |-> <<ItemOfferList>>]>>},
     h1_title        : {None, Str(HeadingRental)},
     price_text      : {None, Str(PriceVisible), Str(PriceNone), Str(PriceZeroWon)},
     cat_texts       : {<<>>, <<CatCamping, CatFree, Blank>>, <<CatFree, CatCamping>>},
     desc_parts      : {<<>>, DescFee, DescDeposit, DescMixed, DescPlain},
     url             : {LinkPage}]

NoResponse ==
    [og_title |-> None, og_url |-> None, canonical |-> None, meta_price |-> None,
     article_section |-> None, ld_nodes |-> <<>>, h1_title |-> None, price_text |-> None,
     cat_texts |-> <<>>, desc_parts |-> <<>>, url |-> <<>>]

\* the detail pages the crawl meets: one kept, one skipped, one that raises
CrawlPages ==
    { [NoResponse EXCEPT !.url = LinkPage, !.og_title = Str(TitleRental),
                         !.desc_parts = DescFee],
      [NoResponse EXCEPT !.url = LinkPage, !.og_title = Str(TitleDesk)],
      [NoResponse EXCEPT !.url = LinkPage, !.og_title = Str(TitleRental),
                         !.ld_nodes = <<[parses |-> TRUE, items |-> <<ItemOffersText>>]>>] }

\* what parse_detail produces on each of them
CrawlOutcome == [body \in CrawlPages |-> ParseDetail(body)]

-----------------------------------------------------------------------------
(* The crawl: the spider's callbacks driven by the engine *)

Pages == 1..MaxPagesBound

Reqs == [kind : {"list", "detail"}, page : Pages]

ListReq(p) == [kind |-> "list", page |-> p]

DetailReq(p) == [kind |-> "detail", page |-> p]

EmptyBag == [r \in Reqs |-> 0]

BagAdd(b, r, n) == [b EXCEPT ![r] = @ + n]

RECURSIVE SumOver(_, _)
SumOver(b, S) ==
    IF S = {} THEN 0
    ELSE LET r == CHOOSE x \in S : TRUE IN b[r] + SumOver(b, S \ {r})

BagSize(b) == SumOver(b, Reqs)

\* custom_settings["CONCURRENT_REQUESTS"]
ConcurrentRequests == 1

\* self.start_urls, as page numbers
StartUrlsEveryPage(mp) == 1..mp

StartUrls(mp) == {1}

\* if self.page <= self.max_pages
ShouldFollowStrict(p, mp) == p < mp

ShouldFollow(p, mp) == p <= mp

ParkedCrawl ==
    /\ start_urls = {}
    /\ max_pages = 1
    /\ page = 1
    /\ scheduler = EmptyBag
    /\ downloading = EmptyBag
    /\ responses = EmptyBag
    /\ listLog = <<>>
    /\ parsedLists = {}

ParkedDetail == response = NoResponse /\ detailOut = NoDetail

NoCall == [fn |-> "", text |-> <<>>, number |-> None, unit |-> None]

NoReturn == [done |-> FALSE, v |-> None]

ParkedHelper == arg = NoCall /\ ret = NoReturn

crawlVars == <<start_urls, max_pages, page, scheduler, downloading, responses,
               listLog, parsedLists>>

\* __init__
InitCrawl ==
    /\ max_pages \in 1..MaxPagesBound
    /\ page = 1
    /\ start_urls = StartUrls(max_pages)
    /\ scheduler = EmptyBag
    /\ downloading = EmptyBag
    /\ responses = EmptyBag
    /\ listLog = <<>>
    /\ parsedLists = {}
    /\ ParkedDetail
    /\ ParkedHelper

\* the engine turns a start URL into a request with callback parse
StartRequests ==
    /\ \E p \in start_urls :
          /\ start_urls' = start_urls \ {p}
          /\ scheduler' = BagAdd(scheduler, ListReq(p), 1)
          /\ listLog' = Append(listLog, p)
    /\ UNCHANGED <<max_pages, page, downloading, responses, parsedLists,
                   response, detailOut, arg, ret>>

\* the engine hands a scheduled request to the downloader
NextRequest ==
    /\ BagSize(downloading) < ConcurrentRequests
    /\ \E r \in Reqs :
          /\ scheduler[r] > 0
          /\ scheduler' = BagAdd(scheduler, r, -1)
          /\ downloading' = BagAdd(downloading, r, 1)
    /\ UNCHANGED <<start_urls, max_pages, page, responses, listLog, parsedLists,
                   response, detailOut, arg, ret>>

\* a download completes
Downloaded ==
    /\ \E r \in Reqs :
          /\ downloading[r] > 0
          /\ downloading' = BagAdd(downloading, r, -1)
          /\ responses' = BagAdd(responses, r, 1)
    /\ UNCHANGED <<start_urls, max_pages, page, scheduler, listLog, parsedLists,
                   response, detailOut, arg, ret>>

\* parse(response) on listing page k that yields n detail links
Parse ==
    /\ \E k \in Pages, n \in 0..MaxLinks :
          /\ responses[ListReq(k)] > 0
          /\ responses' = BagAdd(responses, ListReq(k), -1)
          /\ page' = page + 1
          /\ parsedLists' = parsedLists \cup {k}
          /\ IF ShouldFollow(page', max_pages)
             THEN /\ scheduler' = BagAdd(BagAdd(scheduler, DetailReq(k), n),
                                         ListReq(page'), 1)
                  /\ listLog' = Append(listLog, page')
             ELSE /\ scheduler' = BagAdd(scheduler, DetailReq(k), n)
                  /\ listLog' = listLog
    /\ UNCHANGED <<start_urls, max_pages, downloading, response, detailOut, arg, ret>>

\* parse_detail(response) on a detail page found on listing page k
ParseDetailCallback ==
    /\ \E k \in Pages, body \in CrawlPages :
          /\ responses[DetailReq(k)] > 0
          /\ responses' = BagAdd(responses, DetailReq(k), -1)
          /\ response' = body
          /\ detailOut' = CrawlOutcome[body]
    /\ UNCHANGED <<start_urls, max_pages, page, scheduler, downloading, listLog,
                   parsedLists, arg, ret>>

NextCrawl ==
    \/ StartRequests
    \/ NextRequest
    \/ Downloaded
    \/ Parse
    \/ ParseDetailCallback

SpecCrawl == InitCrawl /\ [][NextCrawl]_vars

-----------------------------------------------------------------------------
(* One detail page through parse_detail *)

InitDetail ==
    /\ ParkedCrawl
    /\ ParkedHelper
    /\ \/ response \in PagesFields
       \/ response \in
             [og_title        : {None, Str(TitleRental)},
              og_url          : {None},
              canonical       : {None},
              meta_price      : {None},
              article_section : {None, Str(CatCamping)},
              ld_nodes        : SeqsUpTo(LdShapes, MaxBlocks),
              h1_title        : {None, Str(HeadingRental)},
              price_text      : {None},
              cat_texts       : {<<>>},
              desc_parts      : {DescFee},
              url             : {LinkPage}]
    /\ detailOut = NoDetail

ParseDetailCall ==
    /\ detailOut.outcome = "none"
    /\ detailOut' = ParseDetail(response)
    /\ UNCHANGED <<crawlVars, response, arg, ret>>

NextDetail == ParseDetailCall

SpecDetail == InitDetail /\ [][NextDetail]_vars

-----------------------------------------------------------------------------
(* One call of _normalize_amount, one call of _parse_rental_duration *)

InitAmount ==
    /\ ParkedCrawl
    /\ ParkedDetail
    /\ arg \in [fn : {"_normalize_amount"}, text : {<<>>},
                number : AmountExamples \cup
                         {Str(x) : x \in SeqsUpTo(AmountAlphabet, MaxNumLen)},
                unit : AmountUnits]
    /\ ret = NoReturn

NormalizeAmountCall ==
    /\ ~ret.done
    /\ arg.fn = "_normalize_amount"
    /\ ret' = [done |-> TRUE, v |-> NormalizeAmount(arg.number, arg.unit)]
    /\ UNCHANGED <<crawlVars, response, detailOut, arg>>

NextAmount == NormalizeAmountCall

SpecAmount == InitAmount /\ [][NextAmount]_vars

InitDuration ==
    /\ ParkedCrawl
    /\ ParkedDetail
    /\ arg \in [fn : {"_parse_rental_duration"},
                text : {Flatten(p) : p \in SeqsUpTo(DurationTokens, MaxParts)},
                number : {None}, unit : {None}]
    /\ ret = NoReturn

ParseRentalDurationCall ==
    /\ ~ret.done
    /\ arg.fn = "_parse_rental_duration"
    /\ ret' = [done |-> TRUE, v |-> Str(ParseRentalDuration(arg.text))]
    /\ UNCHANGED <<crawlVars, response, detailOut, arg>>

NextDuration == ParseRentalDurationCall

SpecDuration == InitDuration /\ [][NextDuration]_vars

-----------------------------------------------------------------------------
(* Properties *)

\* parse_detail has run on the response
Ran == detailOut.outcome # "none"

\* parse_detail yielded an item
Emitted == detailOut.outcome = "record"

Item == detailOut.items[1]

\* a non-empty run of decimal digits
IsDigitString(s) == s # <<>> /\ \A i \in 1..Len(s) : s[i] \in Digits

\* nothing is queued, downloading or waiting for its callback
Quiescent ==
    /\ start_urls = {}
    /\ BagSize(scheduler) = 0
    /\ BagSize(downloading) = 0
    /\ BagSize(responses) = 0

\* the request for listing page q is in the scheduler or the downloader
ListingOutstanding(q) == scheduler[ListReq(q)] + downloading[ListReq(q)] > 0

\* detail pages of listing page k not fetched or not parsed yet
DetailsPending(k) ==
    scheduler[DetailReq(k)] + downloading[DetailReq(k)] + responses[DetailReq(k)]

\* listing requests and listing responses anywhere in the engine
ListingsInFlight ==
    SumOver(scheduler, {ListReq(q) : q \in Pages})
        + SumOver(downloading, {ListReq(q) : q \in Pages})
        + SumOver(responses, {ListReq(q) : q \in Pages})

\* C1: the listing requests issued so far are pages 1, 2, 3, ... in that order,
\* never more than max_pages of them; once the page counter has passed max_pages
\* exactly max_pages have been issued, and a crawl that has come to rest has
\* issued exactly the requests for pages 1..max_pages, whatever number of detail
\* links each listing page yielded.
C1_ExactListingRequests ==
    /\ \A i \in 1..Len(listLog) : listLog[i] = i
    /\ Len(listLog) <= max_pages
    /\ page > max_pages => Len(listLog) = max_pages
    /\ Quiescent => Len(listLog) = max_pages /\ page = max_pages + 1

\* C1 witness: a crawl of at least two pages has come to rest after parsing
\* detail pages
C1_CrawlFinished ==
    /\ Quiescent
    /\ max_pages >= 2
    /\ parsedLists = 1..max_pages
    /\ detailOut.outcome = "record"

\* C2 as claimed: no request for listing page k+1 is outstanding while a detail
\* page of listing page k is still unfetched or unparsed.
C2_DetailsBeforeNextListing ==
    \A k \in Pages :
        (k + 1 \in Pages /\ ListingOutstanding(k + 1)) => DetailsPending(k) = 0

\* C2 amended: listing pages are requested one at a time.  At most one listing
\* request or response is in the engine; the request for listing page q is the
\* one for the current page counter and exists only once every earlier listing
\* page has been parsed; detail requests exist only for parsed listing pages;
\* and at most one request is being downloaded.
C2_OneListingAtATime ==
    /\ ListingsInFlight <= 1
    /\ \A q \in Pages :
          scheduler[ListReq(q)] + downloading[ListReq(q)] + responses[ListReq(q)] > 0
              => q = page /\ parsedLists = 1..(q - 1)
    /\ \A k \in Pages : DetailsPending(k) > 0 => k \in parsedLists
    /\ BagSize(downloading) <= 1

\* C2 witness: listing page 2 is being downloaded while detail pages of listing
\* page 1 are still waiting
C2_NextListingWhileDetailsPending ==
    /\ downloading[ListReq(2)] = 1
    /\ scheduler[DetailReq(1)] = MaxLinks

\* C3 as claimed: the rental_price of every emitted record is a string of
\* decimal digits.
C3_PriceIsDigitString ==
    Emitted => Item.rental_price.k = "str" /\ IsDigitString(Item.rental_price.s)

\* the text parse_detail hands to _parse_rental_duration has nothing a duration
\* rule could match: no digit and none of the duration words
NoDurationCue(r) ==
    LET t == detailOut.picked.product_name \o Description(r.desc_parts)
    IN  /\ \A i \in 1..Len(t) : t[i] \notin Digits
        /\ ~Contains(t, <<"ha", "ru">>)
        /\ ~Contains(t, <<"dang", "il">>)
        /\ ~Contains(t, <<"han", "dal">>)

\* the description holds no deposit keyword at all
NoDepositKeyword(r) ==
    \A i \in 1..Len(r.desc_parts) :
        \A j \in 1..Len(r.desc_parts[i]) : r.desc_parts[i][j] # "bo"

\* C4: every emitted record has a non-empty rental_duration, "1 il" when no
\* duration rule matches, and a deposit that is absent or a string of digits,
\* never the empty string; it is "0" when the description has no deposit
\* keyword, and "bojeunggeum: 1.5man" followed by "2bak3il" gives 150000 and 3 il.
C4_DurationAndDeposit ==
    Emitted =>
        /\ Item.rental_duration # <<>>
        /\ NoDurationCue(response) => Item.rental_duration = <<"1", "il">>
        /\ \/ Item.deposit.k = "none"
           \/ Item.deposit.k = "str" /\ IsDigitString(Item.deposit.s)
        /\ NoDepositKeyword(response) => Item.deposit = Str(<<"0">>)
        /\ response.desc_parts = DescDeposit =>
              /\ Item.deposit = Str(<<"1", "5", "0", "0", "0", "0">>)
              /\ Item.rental_duration = <<"3", "il">>

\* C4 witness: a record whose description has no deposit keyword and no
\* duration cue
C4_DefaultsEmitted ==
    /\ Emitted
    /\ NoDepositKeyword(response)
    /\ NoDurationCue(response)
    /\ Item.deposit = Str(<<"0">>)
    /\ Item.rental_duration = <<"1", "il">>

\* the title, spaces removed, holds "daeyeo" or "rental"
HasRentalKeyword(name) ==
    LET t == Remove(name, {" "})
    IN  \E i \in 1..Len(t) :
            \/ t[i] = "dae" /\ CharAt(t, i + 1) = "yeo"
            \/ t[i] = "ren" /\ CharAt(t, i + 1) = "tal"

IsExcludedCategory(c) ==
    \/ c = <<"ti", "ket", "/", "gyo", "hwan", "gwon">>
    \/ c = <<"sap", "ni", "da">>
    \/ c = <<"mu", "ryo", "na", "num">>

\* C5: a detail page whose fields were reconciled yields a record exactly when
\* the reconciled product name, spaces removed, matches the title keywords and
\* the reconciled category is none of the three excluded ones; an excluded
\* category is rejected whatever the title; a rejected page yields no record and
\* an accepted page exactly one.
C5_KeptIffTitleAndCategory ==
    /\ Ran /\ detailOut.outcome # "error" =>
          /\ Emitted <=> /\ HasRentalKeyword(detailOut.picked.product_name)
                         /\ ~IsExcludedCategory(detailOut.picked.category)
          /\ IsExcludedCategory(detailOut.picked.category) => detailOut.outcome = "skip"
    /\ Len(detailOut.items) = IF Emitted THEN 1 ELSE 0

\* C5 witness: a page whose title matches is rejected for its category
C5_ExcludedDespiteTitle ==
    /\ detailOut.outcome = "skip"
    /\ HasRentalKeyword(detailOut.picked.product_name)
    /\ detailOut.picked.category = <<"mu", "ryo", "na", "num">>
    /\ detailOut.items = <<>>

\* what the claim says _normalize_amount returns for a number token made of
\* digits and separators and one of the units it names
ClaimedAmount ==
    LET core == Remove(arg.number.s, {",", "."})
        mult == IF arg.unit = Str(<<"man">>) THEN 10000
                ELSE IF arg.unit = Str(<<"cheon">>) THEN 1000 ELSE 1
    IN  /\ ( /\ arg.number.k = "str"
             /\ IsDigitString(core)
             /\ arg.unit \in {None, Str(<<>>), Str(<<"man">>), Str(<<"cheon">>),
                              Str(<<"won">>)} )
           => ret.v = Str(IntToStr(ParseInt(core) * mult))
        /\ ret.v = None =>
              arg.number.k = "none" \/ ~IsDigitString(Strip(core))
        /\ (arg.number = Str(<<"1", ".", "5">>) /\ arg.unit = Str(<<"man">>))
              => ret.v = Str(<<"1", "5", "0", "0", "0", "0">>)
        /\ (arg.number = Str(<<"2">>) /\ arg.unit = Str(<<"cheon">>))
              => ret.v = Str(<<"2", "0", "0", "0">>)

ExpectedFallback(desc_parts) ==
    IF desc_parts = DescFee THEN <<"1", "5", "0", "0", "0">>
    ELSE IF desc_parts = DescMixed THEN <<"2", "0", "0", "0">>
    ELSE <<"0">>

\* C7: when the reconciled price is empty, "0", "0won" or "gagyeok eopeum" the
\* emitted rental_price is the normalized amount of the first fee keyword +
\* number in the description ("daeyeobi 15000won" gives "15000") and "0" when
\* there is none; any other reconciled price is emitted unchanged.
C7_PriceFallback ==
    Emitted =>
        IF \/ detailOut.picked.rental_price = <<>>
           \/ detailOut.picked.rental_price = <<"0">>
           \/ detailOut.picked.rental_price = <<"0", "won">>
           \/ detailOut.picked.rental_price = <<"ga", "gyeok", " ", "eop", "eum">>
        THEN Item.rental_price = Str(ExpectedFallback(response.desc_parts))
        ELSE Item.rental_price = Str(detailOut.picked.rental_price)

\* C7 witness: the visible price says "no price" and the description supplies it
C7_FallbackFromDescription ==
    /\ Emitted
    /\ detailOut.picked.rental_price = <<"ga", "gyeok", " ", "eop", "eum">>
    /\ response.desc_parts = DescMixed
    /\ Item.rental_price = Str(<<"2", "0", "0", "0">>)

\* C8 as claimed: parse_detail ends with an emitted record or a logged skip.
C8_RecordOrSkip ==
    Ran => \/ detailOut.outcome = "record" /\ Len(detailOut.items) = 1
           \/ detailOut.outcome = "skip" /\ detailOut.log # <<>>

DurationHours(n) ==
    IF n < 24 THEN IntToStr(n) \o <<"si", "gan">>
    ELSE IF n \div 24 >= 1 THEN IntToStr(n \div 24) \o <<"il">> ELSE <<"1", "il">>

\* C9: _parse_rental_duration returns the result of the first rule that
\* matches, in the order date guard, N bak M il, N il / N~M il, haru / dangil,
\* N ju, N sigan, one month, default.
C9_DurationRules ==
    ret.done =>
        LET t     == Remove(arg.text, {" "})
            P     == 1..Len(t)
            date  == \E i \in P : t[i] \in Digits /\ CharAt(t, i + 1) = "/"
                                  /\ CharAt(t, i + 2) \in Digits
            nd    == {i \in P : NightsDaysAt(t, i)}
            d     == {i \in P : DaysAt(t, i)}
            word  == \E i \in P : \/ t[i] = "ha" /\ CharAt(t, i + 1) = "ru"
                                  \/ t[i] = "dang" /\ CharAt(t, i + 1) = "il"
            w     == {i \in P : WeeksAt(t, i)}
            h     == {i \in P : HoursAt(t, i)}
            month == \E i \in P :
                        \/ t[i] = "han" /\ CharAt(t, i + 1) = "dal"
                        \/ t[i] = "1" /\ CharAt(t, i + 1) = "gae" /\ CharAt(t, i + 2) = "wol"
                        \/ t[i] = "3" /\ CharAt(t, i + 1) = "0" /\ CharAt(t, i + 2) = "il"
            r     == ret.v.s
        IN  /\ date => r = <<"1", "il">>
            /\ (~date /\ nd # {}) => r = NightsDaysGroup2(t, FirstPos(nd)) \o <<"il">>
            /\ (~date /\ nd = {} /\ d # {}) => r = DigitRun(t, FirstPos(d)) \o <<"il">>
            /\ (~date /\ nd = {} /\ d = {} /\ word) => r = <<"1", "il">>
            /\ (~date /\ nd = {} /\ d = {} /\ ~word /\ w # {})
                  => r = IntToStr(ParseInt(DigitRun(t, FirstPos(w))) * 7) \o <<"il">>
            /\ (~date /\ nd = {} /\ d = {} /\ ~word /\ w = {} /\ h # {})
                  => r = DurationHours(ParseInt(DigitRun(t, FirstPos(h))))
            /\ (~date /\ nd = {} /\ d = {} /\ ~word /\ w = {} /\ h = {} /\ month)
                  => r = <<"3", "0", "il">>
            /\ (~date /\ nd = {} /\ d = {} /\ ~word /\ w = {} /\ h = {} /\ ~month)
                  => r = <<"1", "il">>
            /\ arg.text = <<"2", "bak", "2", "5", "il">> => r = <<"2", "5", "il">>
            /\ arg.text = <<"2", "~", "2", "5", "il">> => r = <<"2", "il">>
            /\ arg.text = <<"2", "ju">> => r = <<"1", "4", "il">>
            /\ arg.text = <<"2", "si", "gan">> => r = <<"2", "si", "gan">>
            /\ arg.text = <<"2", "5", "si", "gan">> => r = <<"1", "il">>
            /\ arg.text = <<"2", "/", "2", "5", "il">> => r = <<"1", "il">>
            /\ arg.text = <<"5", "il", "2", "bak", "2", "5", "il">> => r = <<"2", "5", "il">>
            /\ arg.text = <<>> => r = <<"1", "il">>

\* C9 witness: a date-like text that the N il rule would also match gives "1 il"
C9_DateGuardFirst ==
    /\ ret.done
    /\ arg.text = <<"2", "/", "2", "5", "il">>
    /\ ret.v = Str(<<"1", "il">>)

\* the cleaned value of a candidate, <<>> when it is absent
Cleaned(v) == IF v.k = "str" THEN Strip(CollapseWs(v.s)) ELSE <<>>

FirstNonEmpty(a, b, c) ==
    IF Cleaned(a) # <<>> THEN Cleaned(a)
    ELSE IF Cleaned(b) # <<>> THEN Cleaned(b)
    ELSE Cleaned(c)

\* the last breadcrumb / category text that is not blank, cleaned
RECURSIVE LastNonEmpty(_)
LastNonEmpty(texts) ==
    IF texts = <<>> THEN <<>>
    ELSE IF Cleaned(Str(texts[Len(texts)])) # <<>> THEN Cleaned(Str(texts[Len(texts)]))
    ELSE LastNonEmpty(SubSeq(texts, 1, Len(texts) - 1))

\* C10: each reconciled field is the cleaned value of the first candidate, in
\* the field's priority order, whose cleaned value is non-empty, and empty when
\* there is none; the post_link of an emitted record is never empty.
C10_Reconciliation ==
    LET ld == LdNodes(response.ld_nodes, LdInit)
    IN  /\ Ran /\ detailOut.outcome # "error" =>
              /\ detailOut.picked.product_name =
                    FirstNonEmpty(response.og_title, ld.name, response.h1_title)
              /\ detailOut.picked.rental_price =
                    FirstNonEmpty(response.meta_price, ld.price, response.price_text)
              /\ detailOut.picked.category =
                    FirstNonEmpty(ld.category, response.article_section,
                                  Str(LastNonEmpty(response.cat_texts)))
              /\ detailOut.picked.post_link =
                    FirstNonEmpty(response.canonical, response.og_url, Str(response.url))
        /\ Emitted =>
              /\ Item.post_link # <<>>
              /\ Item.post_link = detailOut.picked.post_link
              /\ Item.product_name = detailOut.picked.product_name
              /\ Item.category = detailOut.picked.category

\* C10 witness: a record whose name comes from the visible heading, whose
\* category is the last non-blank breadcrumb and whose link falls back to the
\* page URL past a blank canonical link
C10_LowestPriorityCandidates ==
    /\ Emitted
    /\ response.og_title = None
    /\ response.ld_nodes = <<>>
    /\ response.canonical = Str(Blank)
    /\ response.og_url = None
    /\ response.cat_texts = <<CatFree, CatCamping>>
    /\ response.article_section = None
    /\ Item.product_name = HeadingRental
    /\ Item.category = CatCamping
    /\ Item.post_link = LinkPage

=============================================================================
